---------------------------- MODULE Spec2Model ----------------------------
(***************************************************************************)
(* A model of mpip_parser.py: the mpiP report parser (MPIPParser), the     *)
(* uploader's batch loop (FirebaseUploader.batch_upload) and the command   *)
(* line driver (main).                                                     *)
(*                                                                         *)
(* Text is modelled at two levels.  A token (a maximal run of non-blank    *)
(* characters, what str.split() yields) is a sequence of one-character     *)
(* strings, so that str.isdigit, int() and float() are computed character  *)
(* by character.  A document is a sequence of lines; a line is a record    *)
(* that names which literal of the report format it carries (a section     *)
(* header marker, the "@ MPIP env var" key, the "@ MPI Task Assignment"    *)
(* key, or none), whether it starts with white space, and its tokens.      *)
(*                                                                         *)
(* Character alphabet of the model: the decimal digits, the superscript    *)
(* two of latin-1 (written "sup2": str.isdigit accepts it, int() does      *)
(* not), "+", "-", ".", "e", "E", "*", "_" and letters.  The words "inf",  *)
(* "nan" and digit groups separated by "_" (which float() and int() also   *)
(* accept) are not formed from tokens the model draws.                     *)
(***************************************************************************)
EXTENDS Integers, Sequences, FiniteSets, TLC

(***************************************************************************)
(* Bounds of the model.                                                    *)
(***************************************************************************)
MaxLines == 3
MaxSecLines == 4
MaxRows == 3
MaxFiles == 2

(***************************************************************************)
(* Characters and tokens.                                                  *)
(***************************************************************************)
DecDigits == {"0", "1", "2", "3", "4", "5", "6", "7", "8", "9"}

\* The characters str.isdigit() accepts: decimal digits and superscripts.
IsDigitChar(c) == c \in DecDigits \cup {"sup2"}

DigitVal(c) ==
  CASE c = "0" -> 0 [] c = "1" -> 1 [] c = "2" -> 2 [] c = "3" -> 3
    [] c = "4" -> 4 [] c = "5" -> 5 [] c = "6" -> 6 [] c = "7" -> 7
    [] c = "8" -> 8 [] c = "9" -> 9

AllDec(s) == \A i \in 1..Len(s) : s[i] \in DecDigits

Drop(s, n) == SubSeq(s, n + 1, Len(s))

Take(s, n) == SubSeq(s, 1, n)

\* The first index of s holding a character of cs, or 0.
RECURSIVE IndexFrom(_, _, _)
IndexFrom(s, cs, i) ==
  IF i > Len(s) THEN 0
  ELSE IF s[i] \in cs THEN i
  ELSE IndexFrom(s, cs, i + 1)

IndexOf(s, cs) == IndexFrom(s, cs, 1)

\* str.isdigit(): non-empty and every character a digit character.
isdigit(tok) == Len(tok) > 0 /\ \A i \in 1..Len(tok) : IsDigitChar(tok[i])

HasSign(tok) == Len(tok) > 0 /\ tok[1] \in {"+", "-"}

Unsigned(tok) == IF HasSign(tok) THEN Drop(tok, 1) ELSE tok

SignOf(tok) == IF Len(tok) > 0 /\ tok[1] = "-" THEN -1 ELSE 1

RECURSIVE DecVal(_)
DecVal(s) ==
  IF Len(s) = 0 THEN 0
  ELSE 10 * DecVal(Take(s, Len(s) - 1)) + DigitVal(s[Len(s)])

\* int(tok) returns (TRUE) or raises ValueError (FALSE).
IntOK(tok) == Len(Unsigned(tok)) > 0 /\ AllDec(Unsigned(tok))

IntVal(tok) == SignOf(tok) * DecVal(Unsigned(tok))

\* float(tok): [sign] (digits [. digits*] | . digits) [(e|E) [sign] digits].
ExpAt(tok) == IndexOf(Unsigned(tok), {"e", "E"})

Mantissa(tok) ==
  IF ExpAt(tok) = 0 THEN Unsigned(tok) ELSE Take(Unsigned(tok), ExpAt(tok) - 1)

Exponent(tok) ==
  IF ExpAt(tok) = 0 THEN <<"0">> ELSE Drop(Unsigned(tok), ExpAt(tok))

IntPart(m) == IF IndexOf(m, {"."}) = 0 THEN m ELSE Take(m, IndexOf(m, {"."}) - 1)

FracPart(m) == IF IndexOf(m, {"."}) = 0 THEN <<>> ELSE Drop(m, IndexOf(m, {"."}))

FloatOK(tok) ==
  LET m == Mantissa(tok)
  IN  /\ AllDec(IntPart(m))
      /\ AllDec(FracPart(m))
      /\ Len(IntPart(m)) + Len(FracPart(m)) > 0
      /\ IntOK(Exponent(tok))

\* The value of a float as <<m, x>>, standing for m * 10^x, with m not a
\* multiple of ten (zero is <<0, 0>>): equal floats have equal pairs.
RECURSIVE Normalize(_, _)
Normalize(m, x) ==
  IF m = 0 THEN <<0, 0>>
  ELSE IF m % 10 = 0 THEN Normalize(m \div 10, x + 1)
  ELSE <<m, x>>

FloatVal(tok) ==
  LET m == Mantissa(tok)
      digits == IntPart(m) \o FracPart(m)
      n == Normalize(DecVal(digits), IntVal(Exponent(tok)) - Len(FracPart(m)))
  IN  <<SignOf(tok) * n[1], n[2]>>


\* The sum of two floats given as <<m, x>> pairs.
RECURSIVE Pow10(_)
Pow10(n) == IF n = 0 THEN 1 ELSE 10 * Pow10(n - 1)

FloatAdd(a, b) ==
  LET x == IF a[2] < b[2] THEN a[2] ELSE b[2]
  IN  Normalize(a[1] * Pow10(a[2] - x) + b[1] * Pow10(b[2] - x), x)

\* A Python value that is an int or a str, tagged so that the two kinds
\* never compare equal.
PyInt(n) == [tag |-> "int", n |-> n, s |-> ""]

PyStr(s) == [tag |-> "str", n |-> 0, s |-> s]

\* A dict with no key.
EmptyDict == [k \in {} |-> TRUE]

\* str.lower() on one character.
Lower(c) ==
  CASE c = "M" -> "m" [] c = "P" -> "p" [] c = "I" -> "i" [] c = "T" -> "t"
    [] c = "C" -> "c" [] c = "O" -> "o" [] c = "X" -> "x" [] c = "N" -> "n"
    [] OTHER -> c

LowerTok(tok) == [i \in 1..Len(tok) |-> Lower(tok[i])]

LowerToks(toks) == [i \in 1..Len(toks) |-> LowerTok(toks[i])]

\* needle in tok, for one token (no needle of the program holds a blank).
ContainsStr(tok, needle) ==
  \E i \in 1..Len(tok) :
    /\ i + Len(needle) - 1 <= Len(tok)
    /\ SubSeq(tok, i, i + Len(needle) - 1) = needle

\* ' '.join(toks), as a sequence of characters.
RECURSIVE Join(_)
Join(toks) ==
  IF Len(toks) = 0 THEN <<>>
  ELSE IF Len(toks) = 1 THEN toks[1]
  ELSE toks[1] \o <<" ">> \o Join(Tail(toks))

(***************************************************************************)
(* Lines and documents.                                                    *)
(*   kind "text": the line is just its tokens (no token: a blank line);    *)
(*   kind "hdr":  the line contains the header marker of section sec;      *)
(*   kind "env":  "@ MPIP env var : " followed by the tokens;              *)
(*   kind "task": "@ MPI Task Assignment : " followed by the tokens.       *)
(* indent: the line starts with white space.                               *)
(***************************************************************************)
Sections == {"mpi_time", "aggregate_time", "message_size", "callsite"}

Line(kind, sec, indent, toks) ==
  [kind |-> kind, sec |-> sec, indent |-> indent, toks |-> toks]

Text(toks) == Line("text", "", FALSE, toks)

Indented(toks) == Line("text", "", TRUE, toks)

Blank == Text(<<>>)

Hdr(sec) == Line("hdr", sec, FALSE, <<>>)

Env(toks) == Line("env", "", FALSE, toks)

Task(rank, node) == Line("task", "", FALSE, <<rank, node>>)

Dashes(n) == [i \in 1..n |-> "-"]

\* A line of n dashes.
Rule(n) == Text(<<Dashes(n)>>)

\* The words of the literals, as tokens (long words abbreviated; none is a
\* number, none starts a column-title line).
HdrToks(sec) ==
  CASE sec = "mpi_time" ->
         <<<<"@", "-", "-", "-">>, <<"M", "P", "I">>, <<"T", "i", "m", "e">>,
           <<"(", "s", ")">>, Dashes(3)>>
    [] sec = "aggregate_time" ->
         <<<<"@", "-", "-", "-">>, <<"A", "g", "g">>, <<"T", "i", "m", "e">>,
           <<"(", "t", "o", "p">>, <<"t", "w", "e", "n", "t", "y">>, Dashes(3)>>
    [] sec = "message_size" ->
         <<<<"@", "-", "-", "-">>, <<"A", "g", "g">>, <<"S", "e", "n", "t">>,
           <<"M", "s", "g">>, <<"S", "i", "z", "e">>, Dashes(3)>>
    [] sec = "callsite" ->
         <<<<"@", "-", "-", "-">>, <<"C", "a", "l", "l", "s", "i", "t", "e">>,
           <<"T", "i", "m", "e">>, <<"s", "t", "a", "t">>, Dashes(3)>>

EnvKeyToks == <<<<"@">>, <<"M", "P", "I", "P">>, <<"e", "n", "v">>, <<"v", "a", "r">>, <<":">>>>

TaskKeyToks == <<<<"@">>, <<"M", "P", "I">>, <<"T", "a", "s", "k">>, <<"A", "s", "g">>, <<":">>>>

\* line.split(): the tokens of the whole line.
Parts(line) ==
  CASE line.kind = "hdr" -> HdrToks(line.sec)
    [] line.kind = "env" -> EnvKeyToks \o line.toks
    [] line.kind = "task" -> TaskKeyToks \o line.toks
    [] OTHER -> line.toks

\* line.strip() is empty.
IsBlank(line) == Len(Parts(line)) = 0

\* line.startswith(word), word without blanks.
StartsWith(line, word) ==
  /\ ~line.indent
  /\ Len(Parts(line)) > 0
  /\ Len(Parts(line)[1]) >= Len(word)
  /\ Take(Parts(line)[1], Len(word)) = word

\* The text "\n-----------" matches at the start of this line.
IsTerminator(line) == StartsWith(line, Dashes(11))

(***************************************************************************)
(* Section location: re.search(MARKER .*?\n(.*?)\n-----------, DOTALL).    *)
(* The search tries the occurrences of the marker from the left; at one    *)
(* occurrence the lazy ".*?\n" first ends at the end of the header line,   *)
(* then at the end of each later line; the lazy group then ends before the *)
(* first "\n-----------" at or after its start.  A match is <<a, j>>: the  *)
(* group is the lines a .. j-1 and line j starts with eleven dashes.       *)
(***************************************************************************)
NoMatch == <<>>

\* The least j >= from whose line starts with eleven dashes, or 0.
RECURSIVE FindTerminator(_, _)
FindTerminator(content, from) ==
  IF from > Len(content) THEN 0
  ELSE IF IsTerminator(content[from]) THEN from
  ELSE FindTerminator(content, from + 1)

\* A locator whose group may be empty: it ends at a terminator on the very
\* line under the header.
RECURSIVE GroupUpToNextLine(_, _)
GroupUpToNextLine(content, a) ==
  IF a > Len(content) THEN NoMatch
  ELSE IF FindTerminator(content, a) # 0
       THEN <<a, FindTerminator(content, a)>>
  ELSE GroupUpToNextLine(content, a + 1)

\* The group, for a group starting at line a, a + 1, ...
RECURSIVE GroupFrom(_, _)
GroupFrom(content, a) ==
  IF a > Len(content) THEN NoMatch
  ELSE IF FindTerminator(content, a + 1) # 0
       THEN <<a, FindTerminator(content, a + 1)>>
  ELSE GroupFrom(content, a + 1)

\* The match of the section's pattern at the leftmost marker that has one.
RECURSIVE SearchSection(_, _, _)
SearchSection(content, sec, i) ==
  IF i > Len(content) THEN NoMatch
  ELSE IF content[i].kind = "hdr" /\ content[i].sec = sec
          /\ GroupFrom(content, i + 1) # NoMatch
       THEN GroupFrom(content, i + 1)
  ELSE SearchSection(content, sec, i + 1)

\* group.strip(): leading and trailing blank lines go, and the first line
\* left loses its leading white space.
RECURSIVE DropBlankHead(_)
DropBlankHead(ls) ==
  IF Len(ls) > 0 /\ IsBlank(ls[1]) THEN DropBlankHead(Tail(ls)) ELSE ls

RECURSIVE DropBlankTail(_)
DropBlankTail(ls) ==
  IF Len(ls) > 0 /\ IsBlank(ls[Len(ls)])
  THEN DropBlankTail(Take(ls, Len(ls) - 1))
  ELSE ls

StripGroup(ls) ==
  LET body == DropBlankTail(DropBlankHead(ls))
  IN  IF Len(body) = 0 THEN body
      ELSE <<[body[1] EXCEPT !.indent = FALSE]>> \o Tail(body)

\* text.split('\n'): the empty text is one empty line.
SplitLines(ls) == IF Len(ls) = 0 THEN <<Blank>> ELSE ls

\* The section's lines, in a one-element sequence, or <<>>: the pattern
\* does not match.
SectionLines(content, sec) ==
  LET m == SearchSection(content, sec, 1)
  IN  IF m = NoMatch THEN <<>>
      ELSE <<SplitLines(StripGroup(SubSeq(content, m[1], m[2] - 1)))>>

(***************************************************************************)
(* Rows.                                                                   *)
(***************************************************************************)
W_Task == <<"T", "a", "s", "k">>

W_Call == <<"C", "a", "l", "l">>

Star == <<"*">>

\* The label scan: while idx < len(parts) and not parts[idx].isdigit().
\* idx counts from 1 here: the number of label tokens is LabelEnd - 1.
\* A scan that ends the label at the first token int() or float() reads.
RECURSIVE LabelEndAtNumber(_, _)
LabelEndAtNumber(parts, idx) ==
  IF idx <= Len(parts) /\ ~(IntOK(parts[idx]) \/ FloatOK(parts[idx]))
  THEN LabelEndAtNumber(parts, idx + 1)
  ELSE idx

RECURSIVE LabelEnd(_, _)
LabelEnd(parts, idx) ==
  IF idx <= Len(parts) /\ ~isdigit(parts[idx])
  THEN LabelEnd(parts, idx + 1)
  ELSE idx

call_type_parts(parts) == Take(parts, LabelEnd(parts, 1) - 1)

remaining_parts(parts) == Drop(parts, LabelEnd(parts, 1) - 1)

\* int(tok) if tok != '*' else 'aggregate'
StarOrIntOK(tok) == tok = Star \/ IntOK(tok)

StarOrInt(tok) == IF tok # Star THEN PyInt(IntVal(tok)) ELSE PyStr("aggregate")

\* One line of the MPI Time loop: the rows it appends (one or none).
MpiTimeRow(line) ==
  LET parts == Parts(line)
  IN  IF ~IsBlank(line) /\ ~StartsWith(line, W_Task) /\ Len(parts) >= 4
         /\ StarOrIntOK(parts[1]) /\ FloatOK(parts[2]) /\ FloatOK(parts[3])
         /\ FloatOK(parts[4])
      THEN <<[task |-> StarOrInt(parts[1]),
              app_time |-> FloatVal(parts[2]),
              mpi_time |-> FloatVal(parts[3]),
              mpi_percentage |-> FloatVal(parts[4])]>>
      ELSE <<>>

\* One line of the Aggregate Time loop.
AggregateTimeRow(line) ==
  LET parts == Parts(line)
      r == remaining_parts(parts)
  IN  IF ~IsBlank(line) /\ ~StartsWith(line, W_Call) /\ Len(parts) >= 6
         /\ Len(r) >= 6
         /\ IntOK(r[1]) /\ FloatOK(r[2]) /\ FloatOK(r[3]) /\ FloatOK(r[4])
         /\ IntOK(r[5]) /\ FloatOK(r[6])
      THEN <<[call_type |-> Join(call_type_parts(parts)),
              site |-> IntVal(r[1]),
              time_ms |-> FloatVal(r[2]),
              app_percentage |-> FloatVal(r[3]),
              mpi_percentage |-> FloatVal(r[4]),
              count |-> IntVal(r[5]),
              cov |-> FloatVal(r[6])]>>
      ELSE <<>>

\* One line of the Message Size loop.
MessageSizeRow(line) ==
  LET parts == Parts(line)
      r == remaining_parts(parts)
  IN  IF ~IsBlank(line) /\ ~StartsWith(line, W_Call) /\ Len(parts) >= 5
         /\ Len(r) >= 5
         /\ IntOK(r[1]) /\ IntOK(r[2]) /\ FloatOK(r[3]) /\ FloatOK(r[4])
         /\ FloatOK(r[5])
      THEN <<[call_type |-> Join(call_type_parts(parts)),
              site |-> IntVal(r[1]),
              count |-> IntVal(r[2]),
              total_bytes |-> FloatVal(r[3]),
              avg_bytes |-> FloatVal(r[4]),
              sent_percentage |-> FloatVal(r[5])]>>
      ELSE <<>>

\* One line of the Callsite loop (the line is stripped first).
CallsiteRow(line) ==
  LET parts == Parts(line)
      r == remaining_parts(parts)
  IN  IF ~IsBlank(line) /\ Len(parts) >= 8 /\ Len(r) >= 8
         /\ IntOK(r[1]) /\ StarOrIntOK(r[2]) /\ IntOK(r[3])
         /\ FloatOK(r[4]) /\ FloatOK(r[5]) /\ FloatOK(r[6])
         /\ FloatOK(r[7]) /\ FloatOK(r[8])
      THEN <<[name |-> Join(call_type_parts(parts)),
              site |-> IntVal(r[1]),
              rank |-> StarOrInt(r[2]),
              count |-> IntVal(r[3]),
              max_time |-> FloatVal(r[4]),
              mean_time |-> FloatVal(r[5]),
              min_time |-> FloatVal(r[6]),
              app_percentage |-> FloatVal(r[7]),
              mpi_percentage |-> FloatVal(r[8])]>>
      ELSE <<>>

RowOf(sec, line) ==
  CASE sec = "mpi_time" -> MpiTimeRow(line)
    [] sec = "aggregate_time" -> AggregateTimeRow(line)
    [] sec = "message_size" -> MessageSizeRow(line)
    [] sec = "callsite" -> CallsiteRow(line)

\* `for line in lines:` of an extractor, from line i on: a line whose row
\* is rejected or raises ValueError is passed over (continue).
\* A loop that a rejected line ends: `break` where the code has `continue`.
RECURSIVE RowsUntilRejected(_, _, _)
RowsUntilRejected(sec, lines, i) ==
  IF i > Len(lines) THEN <<>>
  ELSE IF RowOf(sec, lines[i]) = <<>> /\ ~IsBlank(lines[i]) THEN <<>>
  ELSE RowOf(sec, lines[i]) \o RowsUntilRejected(sec, lines, i + 1)

ExtractRowsUntilRejected(sec, lines) == RowsUntilRejected(sec, lines, 1)

RECURSIVE RowsFrom(_, _, _)
RowsFrom(sec, lines, i) ==
  IF i > Len(lines) THEN <<>>
  ELSE RowOf(sec, lines[i]) \o RowsFrom(sec, lines, i + 1)

ExtractRows(sec, lines) == RowsFrom(sec, lines, 1)

(***************************************************************************)
(* The extractors of MPIPParser.  A dict is a function from its keys; a    *)
(* key the code does not set is not in the domain.                         *)
(***************************************************************************)
Aggregate == PyStr("aggregate")

\* aggregate_stats = [s for s in task_stats if s['task'] == 'aggregate']
aggregate_stats_of(task_stats) ==
  SelectSeq(task_stats, LAMBDA st : st.task = Aggregate)

\* Stats whose aggregate entry is the last aggregate row.
mpi_time_stats_of_last(task_stats) ==
  IF Len(aggregate_stats_of(task_stats)) > 0
  THEN ("task_stats" :> task_stats)
       @@ ("aggregate" :>
             aggregate_stats_of(task_stats)[Len(aggregate_stats_of(task_stats))])
  ELSE ("task_stats" :> task_stats)

\* Lines 155-160: stats once the rows are extracted.
mpi_time_stats_of(task_stats) ==
  IF Len(aggregate_stats_of(task_stats)) > 0
  THEN ("task_stats" :> task_stats)
       @@ ("aggregate" :> aggregate_stats_of(task_stats)[1])
  ELSE ("task_stats" :> task_stats)

\* Lines 137-162, time_section being the match in a one-element sequence.
mpi_time_stats_in(time_section) ==
  IF time_section = <<>> THEN EmptyDict
  ELSE mpi_time_stats_of(ExtractRows("mpi_time", time_section[1]))

_extract_mpi_time_stats(content) ==
  mpi_time_stats_in(SectionLines(content, "mpi_time"))

\* The three extractors that start from {'operations': []} or
\* {'callsites': []} and append the rows of their section, if found.
RowsIn(sec, section) ==
  IF section = <<>> THEN <<>> ELSE ExtractRows(sec, section[1])

SectionRows(content, sec) == RowsIn(sec, SectionLines(content, sec))

_extract_aggregate_time_stats(content) ==
  [operations |-> SectionRows(content, "aggregate_time")]

_extract_message_size_stats(content) ==
  [operations |-> SectionRows(content, "message_size")]

_extract_callsite_stats(content) ==
  [callsites |-> SectionRows(content, "callsite")]

\* re.finditer(r'@ MPI Task Assignment\s*:\s*(\d+)\s+(\S+)'): the line
\* matches when its first token after the colon is made of decimal digits
\* and a second token follows.
TaskMatches(line) ==
  /\ line.kind = "task"
  /\ Len(line.toks) >= 2
  /\ Len(line.toks[1]) > 0
  /\ AllDec(line.toks[1])

RECURSIVE TaskAssignmentsFrom(_, _)
TaskAssignmentsFrom(content, i) ==
  IF i > Len(content) THEN <<>>
  ELSE (IF TaskMatches(content[i])
        THEN <<[rank |-> IntVal(content[i].toks[1]), node |-> content[i].toks[2]]>>
        ELSE <<>>) \o TaskAssignmentsFrom(content, i + 1)

task_assignments_of(content) == TaskAssignmentsFrom(content, 1)

\* set(task['node'] for task in task_assignments)
unique_nodes_of(task_assignments) ==
  {task_assignments[i].node : i \in 1..Len(task_assignments)}

\* list(a_set): the elements, each once, in an order the interpreter picks.
ListsOf(S) ==
  {l \in [1..Cardinality(S) -> S] : \A x \in S : \E i \in DOMAIN l : l[i] = x}

\* The documents of the model hold no "@ Command", "@ Version", "@ Start
\* time" or "@ Stop time" line, so info has none of those keys (nor
\* 'batch_size'); the 'mpip_env_var' key is left out of the model.
\* unique_nodes is list(set(...)) in the order the interpreter picked.
\* Run info that counts a node once per rank placed on it.
run_info_per_rank(task_assignments, unique_nodes) ==
  [task_assignments |-> task_assignments,
   num_processes |-> Len(task_assignments),
   nodes |-> unique_nodes,
   num_nodes |-> Len(task_assignments)]

run_info_of(task_assignments, unique_nodes) ==
  [task_assignments |-> task_assignments,
   num_processes |-> Len(task_assignments),
   nodes |-> unique_nodes,
   num_nodes |-> Len(unique_nodes)]

_extract_run_info(content, unique_nodes) ==
  run_info_of(task_assignments_of(content), unique_nodes)

\* re.search(r'@ MPIP env var\s*:\s*(.+)'): group(1), as tokens.  The
\* search stops at the first "@ MPIP env var" line; "\s*" runs over line
\* ends, so when nothing but white space follows the colon, "(.+)" is the
\* whole next non-blank line (and white space or no match if there is none).
RECURSIVE NextNonBlank(_, _)
NextNonBlank(content, i) ==
  IF i > Len(content) THEN <<>>
  ELSE IF ~IsBlank(content[i]) THEN Parts(content[i])
  ELSE NextNonBlank(content, i + 1)

RECURSIVE EnvVarFrom(_, _)
EnvVarFrom(content, i) ==
  IF i > Len(content) THEN <<>>
  ELSE IF content[i].kind = "env"
       THEN (IF Len(content[i].toks) > 0 THEN content[i].toks
             ELSE NextNonBlank(content, i + 1))
  ELSE EnvVarFrom(content, i + 1)

env_var_value(content) ==
  LowerToks(EnvVarFrom(content, 1))

InValue(needle, value) == \E i \in 1..Len(value) : ContainsStr(value[i], needle)

S_mpip_tcp == <<"m", "p", "i", "p", "_", "t", "c", "p">>

S_mpip_opx == <<"m", "p", "i", "p", "_", "o", "p", "x">>

S_omni == <<"o", "m", "n", "i">>

\* Lines 290-294, for the lower-cased value of a match.
classify(value) ==
  IF InValue(S_mpip_tcp, value) THEN "tcp"
  ELSE IF InValue(S_mpip_opx, value) \/ InValue(S_omni, value) THEN "opx"
  ELSE "unknown"

_infer_interface_from_log(content) == classify(env_var_value(content))

\* Optional[str]: <<>> is None, <<s>> is the string s.
None == <<>>

Some(s) == <<s>>

\* `is not None`, which the empty string passes.
IsNotNone(opt) == opt # <<>>

\* `provided_interface_type if provided_interface_type else ...`: None and
\* the empty string are false.
Truthy(opt) == opt # None /\ opt[1] # ""

interface_type_of(content, provided_interface_type) ==
  IF Truthy(provided_interface_type) THEN provided_interface_type[1]
  ELSE _infer_interface_from_log(content)

TopN == 5

Min(a, b) == IF a < b THEN a ELSE b

RECURSIVE SumTimes(_, _, _)
SumTimes(ops, op_type, i) ==
  IF i > Len(ops) THEN <<0, 0>>
  ELSE IF ops[i].call_type = op_type
       THEN FloatAdd(ops[i].time_ms, SumTimes(ops, op_type, i + 1))
  ELSE SumTimes(ops, op_type, i + 1)

OpTypes(ops) == {ops[i].call_type : i \in 1..Len(ops)}

\* Lines 301-303 (no document of the model has a batch size).
summary_basic(run_info) ==
  [num_processes |-> run_info.num_processes,
   num_nodes |-> run_info.num_nodes,
   batch_size |-> "N/A"]

\* An overhead that is zero, not absent, without an aggregate row.
summary_overhead_or_zero(mpi_time_stats) ==
  IF "aggregate" \in DOMAIN mpi_time_stats
  THEN [total_mpi_percentage |-> mpi_time_stats.aggregate.mpi_percentage,
        total_app_time |-> mpi_time_stats.aggregate.app_time,
        total_mpi_time |-> mpi_time_stats.aggregate.mpi_time]
  ELSE [total_mpi_percentage |-> FloatVal(<<"0">>),
        total_app_time |-> FloatVal(<<"0">>),
        total_mpi_time |-> FloatVal(<<"0">>)]

\* Lines 306-309.
summary_overhead(mpi_time_stats) ==
  IF "aggregate" \in DOMAIN mpi_time_stats
  THEN [total_mpi_percentage |-> mpi_time_stats.aggregate.mpi_percentage,
        total_app_time |-> mpi_time_stats.aggregate.app_time,
        total_mpi_time |-> mpi_time_stats.aggregate.mpi_time]
  ELSE EmptyDict

\* Lines 312-324.
summary_operations(ops) ==
  IF Len(ops) > 0
  THEN [top_operations |-> Take(ops, Min(TopN, Len(ops))),
        operation_counts |->
          [t \in OpTypes(ops) |->
             Cardinality({i \in 1..Len(ops) : ops[i].call_type = t})],
        operation_times |-> [t \in OpTypes(ops) |-> SumTimes(ops, t, 1)]]
  ELSE EmptyDict

_generate_summary(run_info, mpi_time_stats, aggregate_time_stats) ==
  summary_basic(run_info) @@ summary_overhead(mpi_time_stats)
  @@ summary_operations(aggregate_time_stats.operations)

\* Lines 61-72: the dict parse_file returns ('filepath' and
\* 'parsing_timestamp' left out).
compile(filename, interface_type, run_info, mpi_time_stats, aggregate_time_stats,
        message_size_stats, callsite_stats) ==
  [filename |-> filename,
   interface_type |-> interface_type,
   run_info |-> run_info,
   mpi_time_stats |-> mpi_time_stats,
   aggregate_time_stats |-> aggregate_time_stats,
   message_size_stats |-> message_size_stats,
   callsite_stats |-> callsite_stats,
   summary |-> _generate_summary(run_info, mpi_time_stats, aggregate_time_stats)]

\* parse_file on a file that can be read: content is what f.read() returned.
parse_file(filename, content, provided_interface_type, unique_nodes) ==
  compile(filename,
          interface_type_of(content, provided_interface_type),
          _extract_run_info(content, unique_nodes),
          _extract_mpi_time_stats(content),
          _extract_aggregate_time_stats(content),
          _extract_message_size_stats(content),
          _extract_callsite_stats(content))

(***************************************************************************)
(* The documents the model draws.                                          *)
(***************************************************************************)
\* Sequences over S of length at most n.
SeqsUpTo(S, n) == UNION {[1..k -> S] : k \in 0..n}

T0 == <<"0">>
T1 == <<"1">>
T2 == <<"2">>
T3 == <<"3">>
T5 == <<"5">>
T10 == <<"1", "0">>
TMinus1 == <<"-", "1">>
T1p5 == <<"1", ".", "5">>
Tp5 == <<".", "5">>
T1e1 == <<"1", "e", "1">>
T2p0 == <<"2", ".", "0">>
TSup2 == <<"sup2">>
Tx == <<"x">>
TOp == <<"O", "p">>
TCallx == <<"C", "a", "l", "l", "x">>
TName == <<"N", "a", "m", "e">>
Tn1 == <<"n", "1">>
Tn2 == <<"n", "2">>
TNull == <<"[", "n", "u", "l", "l", "]">>
TLibTcp == <<"l", "i", "b", "m", "p", "i", "p", "_", "t", "c", "p", ".", "s", "o">>
TOpxUpper == <<"M", "P", "I", "P", "_", "O", "P", "X">>
TOmni == <<"O", "m", "n", "i", "P", "a", "t", "h">>

\* Lines for the interface classifier: "@ MPIP env var" lines with no
\* value, a tcp value, an upper-case opx value, an omni value, an opx value
\* followed by a tcp value, an unknown value; a blank line; a line of
\* another kind that mentions mpip_tcp.
IfaceLines ==
  {Env(<<>>), Env(<<TLibTcp>>), Env(<<TOpxUpper>>), Env(<<TOmni>>),
   Env(<<TOpxUpper, TLibTcp>>), Env(<<TNull>>), Blank, Text(<<Tx, TLibTcp>>)}

IfaceLabels == {None, Some(""), Some("custom")}

\* Lines for the section locator: two header markers, a terminator, a rule
\* too short to be one, a row and a blank line.
SecLines ==
  {Hdr("mpi_time"), Hdr("aggregate_time"), Rule(11), Rule(5),
   Indented(<<T0, T1p5, Tp5, T1e1>>), Blank}

\* Rows for each table.
RowLines(sec) ==
  CASE sec = "mpi_time" ->
         {Text(<<W_Task, Tx, Tx, Tx>>),
          Indented(<<T0, T1p5, Tp5, T1e1>>),
          Indented(<<Star, T10, T1, T10>>),
          Indented(<<Star, T2, T2, T2p0>>),
          Indented(<<T1, T2, T3>>),
          Indented(<<T1, Tx, T2, T3>>),
          Indented(<<TMinus1, T1, T2, T3, T5>>),
          Indented(<<T1p5, T1, T2, T3>>)}
    [] sec = "aggregate_time" ->
         {Text(<<TOp, T1, T2p0, T3, T1e1, T5, Tp5>>),
          Text(<<TOp, Tx, T2, T1, T1, T1, T3, T1>>),
          Text(<<TOp, TMinus1, T1, T2p0, T3, T1e1, T5, Tp5>>),
          Text(<<TOp, T1p5, T2, T3, T1, T5, T1>>),
          Text(<<TOp, T1, T2, T3>>),
          Text(<<TOp, T1, T2, T3, T1, T1p5, T1>>),
          Text(<<TCallx, T1, T2, T3, T1, T5, T1>>),
          Text(<<TOp, TSup2, T1, T2, T3, T5, T1>>)}
    [] sec = "message_size" ->
         {Text(<<TOp, T1, T2, T3, T1p5, T1e1>>),
          Text(<<TOp, Tx, T2, T1, T10, T10, T1>>),
          Text(<<TOp, T1p5, T1, T2, T3, T1, T5>>),
          Text(<<TOp, T1, T2, T3>>),
          Text(<<TOp, T1, T2p0, T3, T1, T1>>),
          Text(<<TCallx, T1, T2, T3, T1, T5>>),
          Indented(<<W_Call, T2, T2, T3, T1, T5>>)}
    [] sec = "callsite" ->
         {Text(<<TOp, T1, T0, T2, T3, T2p0, T1, T1e1, T5>>),
          Text(<<TOp, T1, Star, T2, T3, T2p0, T1, T1e1, T5>>),
          Indented(<<TOp, Tx, T2, T1, T1, T3, T2, T1, T1, T1>>),
          Text(<<TOp, TMinus1, T2, T1, T5, T3, T2, T1, T1, T1>>),
          Text(<<TOp, T1, T0, T2, T3>>),
          Text(<<TOp, T1, T0, T1p5, T3, T2, T1, T1, T1>>),
          Text(<<W_Call, T3, T0, T2, T3, T2p0, T1, T1e1, T5>>),
          Text(<<TName, Tx, Tx, Tx, Tx, Tx, Tx, Tx, Tx>>)}

\* A table as mpiP prints it: the header line, a rule, the rows, a rule.
TableDoc(sec, rows) == <<Hdr(sec), Rule(11)>> \o rows \o <<Rule(11)>>

\* Lines for the run information: task assignments on two nodes, one with
\* a rank that is no number, and a line of another kind.
RunInfoLines ==
  {Task(T0, Tn1), Task(T1, Tn1), Task(T2, Tn2), Task(Tx, Tn2), Text(<<Tx>>)}

\* A report with some of its four tables: each table that is there has one
\* row, the tables in the order mpiP prints them.
ReportRow(sec) ==
  CASE sec = "mpi_time" -> Indented(<<Star, T10, T1, T10>>)
    [] sec = "aggregate_time" -> Text(<<TOp, T1, T2p0, T3, T1e1, T5, Tp5>>)
    [] sec = "message_size" -> Text(<<TOp, T1, T2, T3, T1p5, T1e1>>)
    [] sec = "callsite" -> Text(<<TOp, T1, T0, T2, T3, T2p0, T1, T1e1, T5>>)

ReportTable(sec, present) ==
  IF sec \in present THEN TableDoc(sec, <<ReportRow(sec)>>) ELSE <<>>

ReportDoc(present) ==
  ReportTable("mpi_time", present) \o ReportTable("aggregate_time", present)
  \o ReportTable("message_size", present) \o ReportTable("callsite", present)

ParseInputs ==
  [content : SeqsUpTo(IfaceLines, MaxLines), provided : IfaceLabels]
  \cup [content : SeqsUpTo(SecLines, MaxSecLines), provided : {None}]
  \cup UNION {[content : {TableDoc(sec, rows) : rows \in SeqsUpTo(RowLines(sec), MaxRows)},
               provided : {None}] : sec \in Sections}
  \cup [content : SeqsUpTo(RunInfoLines, MaxLines), provided : {None}]
  \cup [content : {ReportDoc(present) : present \in SUBSET Sections},
        provided : {None}]

(***************************************************************************)
(* State.                                                                  *)
(***************************************************************************)
VARIABLES
  content,                 \* parse_file: what f.read() returned
  provided_interface_type, \* parse_file: its second argument
  lines,                   \* parse_file: each extractor's `lines`, if it matched
  parsed_data,             \* parse_file: the dict it returns (<<>>: not yet)
  args,                    \* main: the parsed command line
  input_path,              \* main: what the input path is, and the files under it
  files_to_process,        \* main
  pc,                      \* main: where control is
  parsed_experiments,      \* main
  uploader,                \* main: whether FirebaseUploader was constructed
  next_experiment,         \* batch_upload: position of its for loop
  doc_ids,                 \* batch_upload
  db_calls,                \* the calls of upload_experiment, with their outcome
  out                      \* what was printed

parse_vars == <<content, provided_interface_type, lines, parsed_data>>

main_vars ==
  <<args, input_path, files_to_process, pc, parsed_experiments, uploader,
    next_experiment, doc_ids, db_calls, out>>

vars == <<parse_vars, main_vars>>

NotReturned == <<>>

\* main has not started.
MainIdle ==
  /\ args = EmptyDict
  /\ input_path = EmptyDict
  /\ files_to_process = <<>>
  /\ pc = "idle"
  /\ parsed_experiments = <<>>
  /\ uploader = FALSE
  /\ next_experiment = 1
  /\ doc_ids = <<>>
  /\ db_calls = <<>>
  /\ out = <<>>

(***************************************************************************)
(* One call of MPIPParser.parse_file on a readable file.                   *)
(***************************************************************************)
InitParse ==
  /\ \E inp \in ParseInputs :
       /\ content = inp.content
       /\ provided_interface_type = inp.provided
  /\ lines = [sec \in Sections |-> <<>>]
  /\ parsed_data = NotReturned
  /\ MainIdle

ParseFile ==
  /\ parsed_data = NotReturned
  /\ pc = "idle"
  /\ \E unique_nodes \in ListsOf(unique_nodes_of(task_assignments_of(content))) :
       parsed_data' = parse_file("f", content, provided_interface_type, unique_nodes)
  /\ lines' = [sec \in Sections |-> SectionLines(content, sec)]
  /\ UNCHANGED <<content, provided_interface_type, main_vars>>

NextParse == ParseFile

SpecParse == InitParse /\ [][NextParse]_vars

(***************************************************************************)
(* main.                                                                   *)
(***************************************************************************)
\* What the file system holds for one path: whether the directory walk
\* keeps it (a file with a listed suffix and a size above zero), whether
\* open() and read() succeed, and what read() returns.
File(eligible, readable, text) ==
  [eligible |-> eligible, readable |-> readable, content |-> text]

\* A report run over tcp with one rank, and one with an MPI Time table and
\* no "@ MPIP env var" line.
DocTcp == <<Env(<<TLibTcp>>), Task(T0, Tn1)>>

DocTable == TableDoc("mpi_time", <<Indented(<<Star, T10, T1, T10>>)>>)

Files ==
  {File(TRUE, TRUE, DocTcp), File(TRUE, TRUE, DocTable),
   File(TRUE, FALSE, <<>>), File(FALSE, TRUE, DocTcp)}

\* The input path: a file, a directory (its files in the order rglob
\* yields them) or neither.
InputPaths ==
  {[kind |-> "other", files |-> <<>>]}
  \cup [kind : {"file"}, files : [1..1 -> Files]]
  \cup [kind : {"dir"}, files : SeqsUpTo(Files, MaxFiles)]

\* The name of the i-th file under the input path.
FileName(i) == <<"f", i>>

\* --interface-type: absent, empty or a label; --output-json: absent or a path.
CommandLines ==
  [interface_type : {None, Some(""), Some("opx")},
   output_json : {None, Some("out.json")},
   dry_run : BOOLEAN]

\* parse_args: an absent --interface-type is the default 'unknown'.
parse_args(argv) ==
  [interface_type |-> IF argv.interface_type = None THEN Some("unknown")
                      ELSE argv.interface_type,
   interface_type_given |-> argv.interface_type # None,
   output_json |-> argv.output_json,
   dry_run |-> argv.dry_run]

Msg(msg, file, n, data) == [msg |-> msg, file |-> file, n |-> n, data |-> data]

Init ==
  /\ content = <<>>
  /\ provided_interface_type = None
  /\ lines = [sec \in Sections |-> <<>>]
  /\ parsed_data = NotReturned
  /\ \E argv \in CommandLines : args = parse_args(argv)
  /\ input_path \in InputPaths
  /\ files_to_process = <<>>
  /\ pc = "find_files"
  /\ parsed_experiments = <<>>
  /\ uploader = FALSE
  /\ next_experiment = 1
  /\ doc_ids = <<>>
  /\ db_calls = <<>>
  /\ out = <<>>

\* The indices of the files the directory walk keeps, in order.
RECURSIVE EligibleFrom(_, _)
EligibleFrom(files, i) ==
  IF i > Len(files) THEN <<>>
  ELSE (IF files[i].eligible THEN <<i>> ELSE <<>>) \o EligibleFrom(files, i + 1)

found_files(path) ==
  IF path.kind = "file" THEN <<1>>
  ELSE IF path.kind = "dir" THEN EligibleFrom(path.files, 1)
  ELSE <<>>

\* Lines 388-408: find the files; return early when the path is neither a
\* file nor a directory, or when no file is found.
FindFiles ==
  /\ pc = "find_files"
  /\ files_to_process' = found_files(input_path)
  /\ IF input_path.kind \notin {"file", "dir"}
     THEN /\ out' = Append(out, Msg("not_valid", <<>>, 0, EmptyDict))
          /\ pc' = "returned"
     ELSE IF found_files(input_path) = <<>>
     THEN /\ out' = Append(out, Msg("no_files", <<>>, 0, EmptyDict))
          /\ pc' = "returned"
     ELSE /\ out' = Append(out, Msg("found", <<>>, Len(found_files(input_path)), EmptyDict))
          /\ pc' = "parse"
  /\ UNCHANGED <<parse_vars, args, input_path, parsed_experiments, uploader,
                 next_experiment, doc_ids, db_calls>>

\* The files parse_file was called on so far: one "parsing" line each.
Started == Len(SelectSeq(out, LAMBDA m : m.msg = "parsing"))

\* A loop body that loses what was collected when a file fails.
collect_or_reset(experiments, returns, data) ==
  IF returns THEN Append(experiments, data) ELSE <<>>

\* The body of `for file_path in files_to_process`: parsed_experiments
\* after it, data being what parse_file returns if it returns.
collect(experiments, returns, data) ==
  IF returns THEN Append(experiments, data) ELSE experiments

\* What the body prints: the file, then its line or the error.
report(name, returns) ==
  <<Msg("parsing", name, 0, EmptyDict),
    Msg(IF returns THEN "parsed" ELSE "error_parsing", name, 0, EmptyDict)>>

\* Lines 412-420: one turn of the parse loop.
ParseNext ==
  /\ pc = "parse"
  /\ Started < Len(files_to_process)
  /\ LET i == files_to_process[Started + 1]
         file == input_path.files[i]
     IN  /\ \E unique_nodes \in ListsOf(unique_nodes_of(task_assignments_of(file.content))) :
              parsed_experiments' =
                collect(parsed_experiments, file.readable,
                        parse_file(FileName(i), file.content, args.interface_type,
                                   unique_nodes))
         /\ out' = out \o report(FileName(i), file.readable)
  /\ UNCHANGED <<parse_vars, args, input_path, files_to_process, pc, uploader,
                 next_experiment, doc_ids, db_calls>>

\* Lines 423-426: the JSON dump, when asked for.  open() or the write may
\* raise; nothing catches it and main ends there.
SaveJson ==
  /\ pc = "parse"
  /\ Started = Len(files_to_process)
  /\ IF args.output_json = None
     THEN /\ pc' = "upload"
          /\ out' = out
     ELSE \E written \in BOOLEAN :
            IF written
            THEN /\ pc' = "upload"
                 /\ out' = Append(out, Msg("saved", <<>>, 0, EmptyDict))
            ELSE /\ pc' = "raised"
                 /\ out' = out
  /\ UNCHANGED <<parse_vars, args, input_path, files_to_process,
                 parsed_experiments, uploader, next_experiment, doc_ids, db_calls>>

\* Lines 436-437: the dry run.
DryRun ==
  /\ pc = "upload"
  /\ args.dry_run
  /\ out' = Append(out, Msg("dry_run", <<>>, 0, EmptyDict))
  /\ pc' = "summary"
  /\ UNCHANGED <<parse_vars, args, input_path, files_to_process,
                 parsed_experiments, uploader, next_experiment, doc_ids, db_calls>>

\* An uploader constructed whatever --dry-run says.
NewUploaderUnguarded ==
  /\ pc = "upload"
  /\ \E constructed \in BOOLEAN :
       IF constructed
       THEN /\ uploader' = TRUE
            /\ pc' = "batch_upload"
            /\ out' = out
       ELSE /\ uploader' = FALSE
            /\ pc' = "summary"
            /\ out' = Append(out, Msg("error_uploading", <<>>, 0, EmptyDict))
  /\ UNCHANGED <<parse_vars, args, input_path, files_to_process,
                 parsed_experiments, next_experiment, doc_ids, db_calls>>

\* Line 431: FirebaseUploader(args.credentials) returns, or raises (bad
\* credentials, no client) into the handler of lines 434-435.
NewUploader ==
  /\ pc = "upload"
  /\ ~args.dry_run
  /\ \E constructed \in BOOLEAN :
       IF constructed
       THEN /\ uploader' = TRUE
            /\ pc' = "batch_upload"
            /\ out' = out
       ELSE /\ uploader' = FALSE
            /\ pc' = "summary"
            /\ out' = Append(out, Msg("error_uploading", <<>>, 0, EmptyDict))
  /\ UNCHANGED <<parse_vars, args, input_path, files_to_process,
                 parsed_experiments, next_experiment, doc_ids, db_calls>>

\* uuid.uuid4().hex of the n-th call of upload_experiment: never the same twice.
uuid4(n) == n

\* A loop body that keeps the id of a document that was not stored.
collect_id_always(ids, returns, doc_id) == Append(ids, doc_id)

\* The body of `for experiment in experiments`: doc_ids after it, doc_id
\* being what upload_experiment returns if it returns.
collect_id(ids, returns, doc_id) ==
  IF returns THEN Append(ids, doc_id) ELSE ids

\* What the body prints: where the document went (upload_experiment's own
\* line), or the failure with the experiment's file name.
report_upload(name, returns, doc_id) ==
  IF returns THEN Msg("uploaded_to", name, doc_id, EmptyDict)
  ELSE Msg("failed_to_upload", name, 0, EmptyDict)

\* Lines 365-370: one turn of batch_upload's loop.
UploadNext ==
  /\ pc = "batch_upload"
  /\ next_experiment <= Len(parsed_experiments)
  /\ LET experiment == parsed_experiments[next_experiment]
         doc_id == uuid4(Len(db_calls) + 1)
     IN  \E stored \in BOOLEAN :
           /\ doc_ids' = collect_id(doc_ids, stored, doc_id)
           /\ out' = Append(out, report_upload(experiment.filename, stored, doc_id))
           /\ db_calls' = Append(db_calls, [filename |-> experiment.filename,
                                            interface_type |-> experiment.interface_type,
                                            doc_id |-> doc_id,
                                            stored |-> stored])
  /\ next_experiment' = next_experiment + 1
  /\ UNCHANGED <<parse_vars, args, input_path, files_to_process, pc,
                 parsed_experiments, uploader>>

\* Lines 372 and 432-433: batch_upload returns doc_ids and main prints
\* how many there are.
UploadReturn ==
  /\ pc = "batch_upload"
  /\ next_experiment > Len(parsed_experiments)
  /\ out' = Append(out, Msg("uploaded", <<>>, Len(doc_ids), EmptyDict))
  /\ pc' = "summary"
  /\ UNCHANGED <<parse_vars, args, input_path, files_to_process,
                 parsed_experiments, uploader, next_experiment, doc_ids, db_calls>>

\* Lines 441-452: how many experiments have each interface type and each
\* number of nodes.
interface_counts(experiments) ==
  [k \in {experiments[i].interface_type : i \in 1..Len(experiments)} |->
     Cardinality({i \in 1..Len(experiments) : experiments[i].interface_type = k})]

node_counts(experiments) ==
  [k \in {experiments[i].run_info.num_nodes : i \in 1..Len(experiments)} |->
     Cardinality({i \in 1..Len(experiments) : experiments[i].run_info.num_nodes = k})]

\* Lines 439-457: the summary (the batch sizes, all 'N/A' here, left out).
PrintSummary ==
  /\ pc = "summary"
  /\ out' = Append(out, Msg("summary", <<>>, Len(parsed_experiments),
                            [by_interface |-> interface_counts(parsed_experiments),
                             by_node_count |-> node_counts(parsed_experiments)]))
  /\ pc' = "returned"
  /\ UNCHANGED <<parse_vars, args, input_path, files_to_process,
                 parsed_experiments, uploader, next_experiment, doc_ids, db_calls>>

Next ==
  \/ FindFiles
  \/ ParseNext
  \/ SaveJson
  \/ DryRun
  \/ NewUploader
  \/ UploadNext
  \/ UploadReturn
  \/ PrintSummary

Spec == Init /\ [][Next]_vars

(***************************************************************************)
(* Vocabulary of the properties.                                           *)
(***************************************************************************)
\* parse_file has returned.
Returned == parsed_data # NotReturned

MinOf(S) == CHOOSE x \in S : \A y \in S : x <= y

\* The lines the extractor of a section went through, none if its
\* pattern did not match.
Processed(sec) == IF lines[sec] = <<>> THEN <<>> ELSE lines[sec][1]

\* The rows parse_file returned for a section.
RowsReturned(sec) ==
  CASE sec = "mpi_time" ->
         IF "task_stats" \in DOMAIN parsed_data.mpi_time_stats
         THEN parsed_data.mpi_time_stats.task_stats ELSE <<>>
    [] sec = "aggregate_time" -> parsed_data.aggregate_time_stats.operations
    [] sec = "message_size" -> parsed_data.message_size_stats.operations
    [] sec = "callsite" -> parsed_data.callsite_stats.callsites

\* The schema of a table: the field that holds the label (none for MPI
\* Time), then the typed fields in column order.
LabelField(sec) ==
  CASE sec = "mpi_time" -> ""
    [] sec = "callsite" -> "name"
    [] OTHER -> "call_type"

Schema(sec) ==
  CASE sec = "mpi_time" ->
         <<<<"task", "rank">>, <<"app_time", "float">>, <<"mpi_time", "float">>,
           <<"mpi_percentage", "float">>>>
    [] sec = "aggregate_time" ->
         <<<<"site", "int">>, <<"time_ms", "float">>, <<"app_percentage", "float">>,
           <<"mpi_percentage", "float">>, <<"count", "int">>, <<"cov", "float">>>>
    [] sec = "message_size" ->
         <<<<"site", "int">>, <<"count", "int">>, <<"total_bytes", "float">>,
           <<"avg_bytes", "float">>, <<"sent_percentage", "float">>>>
    [] sec = "callsite" ->
         <<<<"site", "int">>, <<"rank", "rank">>, <<"count", "int">>,
           <<"max_time", "float">>, <<"mean_time", "float">>, <<"min_time", "float">>,
           <<"app_percentage", "float">>, <<"mpi_percentage", "float">>>>

\* A token can be read as a value of the type; the value.
Coercible(type, tok) ==
  CASE type = "int" -> IntOK(tok)
    [] type = "float" -> FloatOK(tok)
    [] type = "rank" -> tok = Star \/ IntOK(tok)

Coerced(type, tok) ==
  CASE type = "int" -> IntVal(tok)
    [] type = "float" -> FloatVal(tok)
    [] type = "rank" -> IF tok = Star THEN Aggregate ELSE PyInt(IntVal(tok))

\* The length of the longest leading run of tokens that are not Numeric.
LeadingRun(parts, Numeric(_)) ==
  CHOOSE n \in 0..Len(parts) :
    /\ \A k \in 1..n : ~Numeric(parts[k])
    /\ n = Len(parts) \/ Numeric(parts[n + 1])

\* Numeric-like in the sense of the numeric coercer: int() or float()
\* reads the token.
NumericLike(tok) == IntOK(tok) \/ FloatOK(tok)

\* The column-title line of a table, as its loop tells it.
IsTitle(sec, line) ==
  CASE sec = "mpi_time" -> StartsWith(line, W_Task)
    [] sec = "callsite" -> FALSE
    [] OTHER -> StartsWith(line, W_Call)

\* The number of label tokens of a line, the label ending before the first
\* Numeric token (MPI Time rows have no label).
LabelLen(sec, line, Numeric(_)) ==
  IF sec = "mpi_time" THEN 0 ELSE LeadingRun(Parts(line), Numeric)

\* A well-formed row of a table: a line that is neither blank nor the
\* title line, with at least as many fields after its label as the table
\* has columns, each readable as the type of its column.
WellFormed(sec, line, Numeric(_)) ==
  /\ ~IsBlank(line)
  /\ ~IsTitle(sec, line)
  /\ Len(Parts(line)) - LabelLen(sec, line, Numeric) >= Len(Schema(sec))
  /\ \A k \in 1..Len(Schema(sec)) :
       Coercible(Schema(sec)[k][2], Parts(line)[LabelLen(sec, line, Numeric) + k])

FieldIndex(sec, name) == CHOOSE k \in 1..Len(Schema(sec)) : Schema(sec)[k][1] = name

FieldNames(sec) ==
  {Schema(sec)[k][1] : k \in 1..Len(Schema(sec))}
  \cup (IF LabelField(sec) = "" THEN {} ELSE {LabelField(sec)})

\* The record of a well-formed row: the label joined by single blanks, the
\* fields in column order.
RowRecord(sec, line, Numeric(_)) ==
  [f \in FieldNames(sec) |->
     IF f = LabelField(sec)
     THEN Join(Take(Parts(line), LabelLen(sec, line, Numeric)))
     ELSE Coerced(Schema(sec)[FieldIndex(sec, f)][2],
                  Parts(line)[LabelLen(sec, line, Numeric) + FieldIndex(sec, f)])]

\* The well-formed rows among the lines a section's extractor went through.
WellFormedLines(sec, Numeric(_)) ==
  SelectSeq(Processed(sec), LAMBDA l : WellFormed(sec, l, Numeric))

(***************************************************************************)
(* C1: interface classification in parse_file.                             *)
(***************************************************************************)
EnvLines == {i \in 1..Len(content) : content[i].kind = "env"}

\* The value of the first "@ MPIP env var" line: what follows the colon
\* on that line (nothing when the document has no such line).
FirstEnvValue == IF EnvLines = {} THEN <<>> ELSE content[MinOf(EnvLines)].toks

NonBlankAfter(i) == {k \in (i + 1)..Len(content) : ~IsBlank(content[k])}

\* The text the first "@ MPIP env var" key leads to: its value, or, when
\* the value is empty, the whole of the next non-blank line.
FirstEnvText ==
  IF EnvLines = {} THEN <<>>
  ELSE IF FirstEnvValue # <<>> THEN FirstEnvValue
  ELSE IF NonBlankAfter(MinOf(EnvLines)) = {} THEN <<>>
  ELSE Parts(content[MinOf(NonBlankAfter(MinOf(EnvLines)))])

Mentions(text, needle) ==
  \E k \in 1..Len(text) : ContainsStr(LowerTok(text[k]), needle)

\* 'tcp' if the text mentions mpip_tcp, else 'opx' if it mentions mpip_opx
\* or omni, else 'unknown'.
Classified(text) ==
  IF Mentions(text, S_mpip_tcp) THEN "tcp"
  ELSE IF Mentions(text, S_mpip_opx) \/ Mentions(text, S_omni) THEN "opx"
  ELSE "unknown"

HeaderLines(sec) ==
  {i \in 1..Len(content) : content[i].kind = "hdr" /\ content[i].sec = sec}

\* The terminator lines at least d lines below line i.
TerminatorsBelow(i, d) ==
  {j \in (i + d)..Len(content) : IsTerminator(content[j])}

\* The lines strictly between lines i and j, as strip() and split('\n')
\* leave them.
Between(i, j) == SplitLines(StripGroup(SubSeq(content, i + 1, j - 1)))

\* C3 as claimed: the lines an extractor processes are those strictly
\* between the first header line and the nearest terminator line below
\* it, none when the terminator comes right after the header; no marker,
\* no section.
C3_AsClaimed ==
  Returned =>
    \A sec \in Sections :
      IF HeaderLines(sec) = {} THEN lines[sec] = <<>>
      ELSE TerminatorsBelow(MinOf(HeaderLines(sec)), 1) # {} =>
             lines[sec] = <<Between(MinOf(HeaderLines(sec)),
                                    MinOf(TerminatorsBelow(MinOf(HeaderLines(sec)), 1)))>>

\* C3 (amended): the lines an extractor processes are those strictly
\* between the first header line and the nearest terminator line (a line
\* starting with eleven dashes) that lies at least two lines below it, so a
\* terminator right after the header line belongs to the span; the section
\* is absent when its marker does not occur or no such terminator follows.
C3_SectionSpan ==
  Returned =>
    \A sec \in Sections :
      IF HeaderLines(sec) = {} THEN lines[sec] = <<>>
      ELSE IF TerminatorsBelow(MinOf(HeaderLines(sec)), 2) = {} THEN lines[sec] = <<>>
      ELSE lines[sec] = <<Between(MinOf(HeaderLines(sec)),
                                  MinOf(TerminatorsBelow(MinOf(HeaderLines(sec)), 2)))>>

\* A table whose header is followed at once by a rule: the rule and the row
\* under it were processed.
C3_Witness ==
  /\ Returned
  /\ Len(Processed("mpi_time")) = 2
  /\ IsTerminator(Processed("mpi_time")[1])
  /\ Len(RowsReturned("mpi_time")) = 1

(***************************************************************************)
(* C4: the label and the fields of a row.                                  *)
(***************************************************************************)
LabelledSections == {"aggregate_time", "message_size", "callsite"}

\* The k-th row returned for the section is the record of the k-th
\* well-formed row, its label ending before the first Numeric token.
RowsSplitBy(sec, Numeric(_)) ==
  /\ Len(RowsReturned(sec)) = Len(WellFormedLines(sec, Numeric))
  /\ \A k \in 1..Len(RowsReturned(sec)) :
       RowsReturned(sec)[k] = RowRecord(sec, WellFormedLines(sec, Numeric)[k], Numeric)

\* C4 as claimed: the label of a row is the join of its longest leading run
\* of tokens that neither int() nor float() reads; the tokens after it are
\* the fields, in order.
C4_AsClaimed ==
  Returned => \A sec \in LabelledSections : RowsSplitBy(sec, NumericLike)

\* C4 (amended): the label of a row is the single-space join of its longest
\* leading run of tokens that are not made of digits only (str.isdigit): a
\* signed or fractional number does not end the label; the tokens from the
\* first all-digit token on are the fields, in order.
C4_LabelAndFields ==
  Returned => \A sec \in LabelledSections : RowsSplitBy(sec, isdigit)

\* A row was returned whose label has two words, the second a number that
\* is not made of digits only.
C4_Witness ==
  /\ Returned
  /\ \E k \in 1..Len(RowsReturned("aggregate_time")) :
       RowsReturned("aggregate_time")[k].call_type = Join(<<TOp, TMinus1>>)

(***************************************************************************)
(* C5: malformed rows are passed over.                                     *)
(***************************************************************************)
\* C5: in each table, the rows returned are the records of the well-formed
\* rows among the lines processed, in their order: a row with too few
\* fields or a field of the wrong type is left out, and the rows before
\* and after it are still returned.
C5_RowSkipping ==
  Returned =>
    \A sec \in Sections :
      RowsReturned(sec) =
        [k \in 1..Len(WellFormedLines(sec, isdigit)) |->
           RowRecord(sec, WellFormedLines(sec, isdigit)[k], isdigit)]

\* A table with a malformed row between two well-formed ones: both were
\* returned.
C5_Witness ==
  /\ Returned
  /\ \E sec \in Sections :
       /\ Len(Processed(sec)) = 4
       /\ WellFormed(sec, Processed(sec)[2], isdigit)
       /\ ~WellFormed(sec, Processed(sec)[3], isdigit)
       /\ ~IsTitle(sec, Processed(sec)[3])
       /\ WellFormed(sec, Processed(sec)[4], isdigit)
       /\ Len(RowsReturned(sec)) = 2

(***************************************************************************)
(* C9: the run information.                                                *)
(***************************************************************************)
\* The "@ MPI Task Assignment : <rank> <node>" lines, in document order.
AssignmentLines ==
  SelectSeq(content, LAMBDA l : l.kind = "task" /\ l.toks[1] # <<>> /\ AllDec(l.toks[1]))

NodeNames == {AssignmentLines[k].toks[2] : k \in 1..Len(AssignmentLines)}

AggregateRows ==
  {k \in 1..Len(RowsReturned("mpi_time")) : RowsReturned("mpi_time")[k].task = Aggregate}

OverheadKeys == {"total_mpi_percentage", "total_app_time", "total_mpi_time"}

\* C10: a returned row carries the sentinel when its task token is '*' and
\* an integer otherwise; 'aggregate' is present exactly when some returned
\* row carries the sentinel and is then the first such row; the summary's
\* overhead fields are copied from it when it is present and are absent
\* otherwise.
C10_AggregateSentinel ==
  Returned =>
    LET stats == parsed_data.mpi_time_stats
        rows == RowsReturned("mpi_time")
        src == WellFormedLines("mpi_time", isdigit)
        summary == parsed_data.summary
    IN  /\ Len(rows) = Len(src)
        /\ \A k \in 1..Len(rows) :
             IF Parts(src[k])[1] = Star THEN rows[k].task = Aggregate
             ELSE rows[k].task = PyInt(IntVal(Parts(src[k])[1]))
        /\ "aggregate" \in DOMAIN stats <=> AggregateRows # {}
        /\ AggregateRows # {} => stats.aggregate = rows[MinOf(AggregateRows)]
        /\ IF AggregateRows # {}
           THEN /\ OverheadKeys \subseteq DOMAIN summary
                /\ summary.total_mpi_percentage = stats.aggregate.mpi_percentage
                /\ summary.total_app_time = stats.aggregate.app_time
                /\ summary.total_mpi_time = stats.aggregate.mpi_time
           ELSE OverheadKeys \cap DOMAIN summary = {}

\* Two '*' rows with different times, after a row of rank 0: the entry and
\* the summary carry the first.
C10_Witness ==
  /\ Returned
  /\ Len(RowsReturned("mpi_time")) = 3
  /\ AggregateRows = {2, 3}
  /\ RowsReturned("mpi_time")[2] # RowsReturned("mpi_time")[3]
  /\ parsed_data.mpi_time_stats.aggregate = RowsReturned("mpi_time")[2]
  /\ parsed_data.summary.total_app_time = RowsReturned("mpi_time")[2].app_time

(***************************************************************************)
(* main: the vocabulary of C2, C6, C7 and C8.                              *)
(***************************************************************************)
\* The lines printed with a given message, in order.
Printed(msg) == SelectSeq(out, LAMBDA m : m.msg = msg)

\* The files the lines are about.
FilesOf(msgs) == [k \in 1..Len(msgs) |-> msgs[k].file]

\* The file a record was parsed from.
FileOf(experiment) == input_path.files[experiment.filename[2]]

\* The files the parse loop has been through, in input order, and those of
\* them that could and could not be read.
StartedFiles == SubSeq(files_to_process, 1, Started)

ParsedFiles == SelectSeq(StartedFiles, LAMBDA i : input_path.files[i].readable)

FailedFiles == SelectSeq(StartedFiles, LAMBDA i : ~input_path.files[i].readable)

\* main is over: it returned, or an exception left it.
Finished == pc \in {"returned", "raised"}

(***************************************************************************)
(* C2: the interface type of a run without --interface-type.               *)
(***************************************************************************)
\* C2: when main is run without --interface-type, the interface_type of
\* every parsed record is the one inferred from the "@ MPIP env var" line
\* of its document, 'unknown' only when the inference finds no known token.
C2_InferredWithoutOption ==
  ~args.interface_type_given =>
    \A k \in 1..Len(parsed_experiments) :
      parsed_experiments[k].interface_type =
        _infer_interface_from_log(FileOf(parsed_experiments[k]).content)

(***************************************************************************)
(* C6: the parse loop of main.                                             *)
(***************************************************************************)
\* C6: the records collected are the records of the files that parsed,
\* one per file, in input order; each file that failed is reported and
\* left out; and past the loop every file has been through it, once.
C6_BatchParsing ==
  /\ Len(parsed_experiments) = Len(ParsedFiles)
  /\ \A k \in 1..Len(parsed_experiments) :
       parsed_experiments[k] =
         parse_file(FileName(ParsedFiles[k]), input_path.files[ParsedFiles[k]].content,
                    args.interface_type, parsed_experiments[k].run_info.nodes)
  /\ FilesOf(Printed("error_parsing")) =
       [k \in 1..Len(FailedFiles) |-> FileName(FailedFiles[k])]
  /\ FilesOf(Printed("parsing")) =
       [k \in 1..Started |-> FileName(files_to_process[k])]
  /\ Started <= Len(files_to_process)
  /\ pc \in {"upload", "batch_upload", "summary", "raised"} =>
       Started = Len(files_to_process)
  /\ \A i, j \in 1..Len(files_to_process) :
       files_to_process[i] = files_to_process[j] => i = j

\* A file that could not be read came before one that could: the second
\* was parsed and its record is the only one.
C6_Witness ==
  /\ Started = 2
  /\ Len(FailedFiles) = 1
  /\ FailedFiles[1] = files_to_process[1]
  /\ Len(parsed_experiments) = 1
  /\ parsed_experiments[1].filename = FileName(files_to_process[2])

(***************************************************************************)
(* C7: batch_upload.                                                       *)
(***************************************************************************)
StoredCalls == SelectSeq(db_calls, LAMBDA c : c.stored)

FailedCalls == SelectSeq(db_calls, LAMBDA c : ~c.stored)

\* C7: the uploads attempted are those of the records up to the loop's
\* position, one each, in sequence order; the ids collected are those of
\* the uploads that succeeded, in order; each failure is logged with the
\* record's file name; and when batch_upload returns, every record was
\* attempted and the list it returns is the one printed.
C7_BatchUpload ==
  /\ next_experiment <= Len(parsed_experiments) + 1
  /\ [k \in 1..Len(db_calls) |-> db_calls[k].filename] =
       [k \in 1..(next_experiment - 1) |-> parsed_experiments[k].filename]
  /\ doc_ids = [k \in 1..Len(StoredCalls) |-> StoredCalls[k].doc_id]
  /\ \A i, j \in 1..Len(doc_ids) : doc_ids[i] = doc_ids[j] => i = j
  /\ FilesOf(Printed("failed_to_upload")) =
       [k \in 1..Len(FailedCalls) |-> FailedCalls[k].filename]
  /\ Printed("uploaded") # <<>> =>
       /\ Len(db_calls) = Len(parsed_experiments)
       /\ Printed("uploaded")[1].n = Len(doc_ids)

\* The upload of the first record failed, the second was then stored, and
\* batch_upload returned the one id.
C7_Witness ==
  /\ Len(db_calls) = 2
  /\ ~db_calls[1].stored
  /\ db_calls[2].stored
  /\ Printed("uploaded") # <<>>
  /\ doc_ids = <<db_calls[2].doc_id>>

(***************************************************************************)
(* C8: the dry run, and the order of parsing, uploading and summary.       *)
(***************************************************************************)
\* main can take a step: the parse loop has a file left, or a step after
\* the loop is enabled.
CanStep ==
  \/ pc = "parse" /\ Started < Len(files_to_process)
  \/ ENABLED (FindFiles \/ SaveJson \/ DryRun \/ NewUploader \/ UploadNext
                \/ UploadReturn \/ PrintSummary)

\* With --dry-run the uploader is never constructed and no upload is
\* attempted; without it, the uploader is constructed and uploads happen
\* only once every file has been through the parse loop; and main goes on
\* until it is over, with every file found gone through the parse loop.
UploadsAfterParsing ==
  /\ args.dry_run => ~uploader /\ db_calls = <<>>
  /\ uploader \/ db_calls # <<>> => Started = Len(files_to_process)
  /\ Finished => Started = Len(files_to_process)
  /\ ~Finished => CanStep

\* C8 as claimed: in every run with --dry-run the uploader is never
\* constructed, no upload is attempted, every file is parsed and the
\* summary is printed; without it uploading starts after the parsing of
\* all files, and the summary is printed even when the uploader cannot be
\* initialised.
C8_AsClaimed ==
  /\ UploadsAfterParsing
  /\ Finished /\ args.dry_run => Printed("summary") # <<>>
  /\ Finished /\ Printed("error_uploading") # <<>> => Printed("summary") # <<>>

\* C8 (amended): with --dry-run the uploader is never constructed and no
\* upload is attempted, while every file found is still parsed; without
\* it uploading starts only after the parsing of all files; and, dry run
\* or not, a run that is over has printed the summary, once, exactly when
\* it found at least one file and the JSON dump, if asked for, did not
\* raise: so also when the uploader could not be initialised.
C8_DryRun ==
  /\ UploadsAfterParsing
  /\ Finished =>
       (Printed("summary") # <<>> <=> files_to_process # <<>> /\ pc = "returned")
  /\ Len(Printed("summary")) <= 1
  /\ Finished /\ Printed("error_uploading") # <<>> => Printed("summary") # <<>>
  /\ Finished /\ Printed("dry_run") # <<>> => Printed("summary") # <<>>

\* A dry run over two files, one unreadable, that is over: both went
\* through the parse loop, no uploader, no upload, and the summary.
C8_Witness ==
  /\ args.dry_run
  /\ pc = "returned"
  /\ Started = 2
  /\ Len(parsed_experiments) = 1
  /\ ~uploader
  /\ db_calls = <<>>
  /\ Printed("summary") # <<>>

(***************************************************************************)
(* C11: sections that are absent.                                          *)
(***************************************************************************)
\* The sections whose header marker is on no line of the document.
MissingSections == {sec \in Sections : HeaderLines(sec) = {}}

\* The result parse_file returned for a section.
ResultOf(sec) ==
  CASE sec = "mpi_time" -> parsed_data.mpi_time_stats
    [] sec = "aggregate_time" -> parsed_data.aggregate_time_stats
    [] sec = "message_size" -> parsed_data.message_size_stats
    [] sec = "callsite" -> parsed_data.callsite_stats

\* What an extractor returns when it finds nothing: the dict it starts from.
EmptyResult(sec) ==
  CASE sec = "mpi_time" -> EmptyDict
    [] sec = "aggregate_time" -> [operations |-> <<>>]
    [] sec = "message_size" -> [operations |-> <<>>]
    [] sec = "callsite" -> [callsites |-> <<>>]

\* The summary fields that come from a section.
DerivedKeys(sec) ==
  CASE sec = "mpi_time" -> OverheadKeys
    [] sec = "aggregate_time" -> {"top_operations", "operation_counts", "operation_times"}
    [] OTHER -> {}

\* The keys of the dict parse_file returns.
ParsedKeys ==
  {"filename", "interface_type", "run_info", "mpi_time_stats",
   "aggregate_time_stats", "message_size_stats", "callsite_stats", "summary"}

\* C11: whatever sections of a document are missing, parse_file returns
\* (on every document it has a value, a dict with every key); the
\* result of each missing section is its empty collection, and the summary
\* has none of the fields derived from it; the rows of each section that
\* is there are the well-formed rows of its own span, whichever other
\* sections are missing; and the summary always has the counts of the run
\* information.
C11_AbsentSections ==
  /\ ~Returned /\ pc = "idle" =>
       \A unique_nodes \in ListsOf(unique_nodes_of(task_assignments_of(content))) :
         DOMAIN parse_file("f", content, provided_interface_type, unique_nodes) =
           ParsedKeys
  /\ Returned =>
       /\ DOMAIN parsed_data = ParsedKeys
       /\ {"num_processes", "num_nodes", "batch_size"} \subseteq DOMAIN parsed_data.summary
       /\ \A sec \in Sections :
            IF sec \in MissingSections
            THEN /\ Processed(sec) = <<>>
                 /\ ResultOf(sec) = EmptyResult(sec)
                 /\ DerivedKeys(sec) \cap DOMAIN parsed_data.summary = {}
            ELSE RowsReturned(sec) =
                   [k \in 1..Len(WellFormedLines(sec, isdigit)) |->
                      RowRecord(sec, WellFormedLines(sec, isdigit)[k], isdigit)]

\* A report without its MPI Time and Callsite tables: the two tables that
\* are there gave their row, the summary has the operations and no
\* overhead.
C11_Witness ==
  /\ Returned
  /\ MissingSections = {"mpi_time", "callsite"}
  /\ ResultOf("mpi_time") = EmptyDict
  /\ ResultOf("callsite") = [callsites |-> <<>>]
  /\ Len(RowsReturned("aggregate_time")) = 1
  /\ Len(RowsReturned("message_size")) = 1
  /\ "top_operations" \in DOMAIN parsed_data.summary
  /\ OverheadKeys \cap DOMAIN parsed_data.summary = {}

=============================================================================
